---------------------------- MODULE Spec2Model ----------------------------
(***************************************************************************)
(* Model of src/app.py: the Camelot key-adjacency table, the transition    *)
(* scorer, the greedy sequencer and the /order request handler.            *)
(*                                                                         *)
(* Encodings                                                               *)
(*   - a song is a record [title, bpm, key];                                *)
(*   - a bpm is <<n>> for the number n and None (<<>>) for JSON null, so    *)
(*     that a missing tempo is a value of its own and not a number;         *)
(*   - a key is a string; JSON null is the string "null", which like every *)
(*     other value outside the table makes CAMELOT_MAP.get return None;     *)
(*   - a Camelot code is the Python string as a sequence of characters      *)
(*     (<<"1","0","B">> is '10B'), parsed and formatted as the code does;   *)
(*   - a score is kept in half points (twice the Python float), so that     *)
(*     bpm_diff * 0.5 stays an integer.                                     *)
(***************************************************************************)
EXTENDS Integers, Sequences, FiniteSets, Bags, TLC

VARIABLES
    request,    \* request.json of POST /order: the list of song dicts
    songs,      \* the local list `songs` of order_songs_greedy (unplaced)
    ordered,    \* the local list `ordered` of order_songs_greedy (placed)
    pc,         \* position of the handler: "receive", "start", "loop", "return",
                \* "except", "done"
    response,   \* what /order answered: [status, body] or [status, error]
    evals,      \* number of transition_score calls made by the request
    call        \* the last direct call of a pure function: [fn, args, ret]

vars == <<request, songs, ordered, pc, response, evals, call>>

-----------------------------------------------------------------------------
(* Bounds and input domains *)

MaxLen == 3

None == <<>>

Titles == {"a", "b"}

BpmValues == {60, 180}

Bpms == {None} \cup {<<n>> : n \in BpmValues}

\* keys sent to /order: neighbours (C = 8B, G = 9B), a far key, a missing one
OrderKeys == {"C", "G", "F#", "null"}

OrderSongs == [title : Titles, bpm : Bpms, key : OrderKeys]

\* the songs of the termination check: one title, a near and a far key
FairSongs == [title : {"a"}, bpm : Bpms, key : {"C", "F#"}]

-----------------------------------------------------------------------------
(* Key-adjacency model *)

Digits == <<"0", "1", "2", "3", "4", "5", "6", "7", "8", "9">>

\* str(n) of a non-negative integer, as the f-string formats it
RECURSIVE str(_)
str(n) ==
    IF n < 10 THEN <<Digits[n + 1]>>
    ELSE str(n \div 10) \o <<Digits[(n % 10) + 1]>>

DigitValue(c) == (CHOOSE i \in 1..10 : Digits[i] = c) - 1

\* int(s) of a string of decimal digits
RECURSIVE int(_)
int(s) ==
    IF Len(s) = 0 THEN 0
    ELSE 10 * int(SubSeq(s, 1, Len(s) - 1)) + DigitValue(s[Len(s)])

CAMELOT_MAP ==
    ("C"  :> <<"8", "B">>)      @@ ("C#" :> <<"3", "B">>) @@
    ("D"  :> <<"1", "0", "B">>) @@ ("D#" :> <<"5", "B">>) @@
    ("E"  :> <<"1", "2", "B">>) @@ ("F"  :> <<"7", "B">>) @@
    ("F#" :> <<"2", "B">>)      @@ ("G"  :> <<"9", "B">>) @@
    ("G#" :> <<"4", "B">>)      @@ ("A"  :> <<"1", "1", "B">>) @@
    ("A#" :> <<"6", "B">>)      @@ ("B"  :> <<"1", "B">>)

\* CAMELOT_MAP.get(key)
get(key) == IF key \in DOMAIN CAMELOT_MAP THEN CAMELOT_MAP[key] ELSE None

\* mutants of camelot_neighbors: no wrap on the wheel, no counterclockwise
\* neighbour, and the key itself left out
camelot_neighbors_no_wrap(camelot_key) ==
    LET num  == int(SubSeq(camelot_key, 1, Len(camelot_key) - 1))
        mode == camelot_key[Len(camelot_key)]
    IN  << str(num) \o <<mode>>,
           str(num + 1) \o <<mode>>,
           str(IF num = 1 THEN 0 ELSE num - 1) \o <<mode>>,
           str(num) \o <<IF mode = "B" THEN "A" ELSE "B">> >>

camelot_neighbors_no_ccw(camelot_key) ==
    LET num  == int(SubSeq(camelot_key, 1, Len(camelot_key) - 1))
        mode == camelot_key[Len(camelot_key)]
    IN  << str(num) \o <<mode>>,
           str((num % 12) + 1) \o <<mode>>,
           str(num) \o <<IF mode = "B" THEN "A" ELSE "B">> >>

camelot_neighbors_no_self(camelot_key) ==
    LET num  == int(SubSeq(camelot_key, 1, Len(camelot_key) - 1))
        mode == camelot_key[Len(camelot_key)]
    IN  << str((num % 12) + 1) \o <<mode>>,
           str(((num - 2) % 12) + 1) \o <<mode>>,
           str(num) \o <<IF mode = "B" THEN "A" ELSE "B">> >>

camelot_neighbors(camelot_key) ==
    LET num  == int(SubSeq(camelot_key, 1, Len(camelot_key) - 1))
        mode == camelot_key[Len(camelot_key)]
    IN  << str(num) \o <<mode>>,
           str((num % 12) + 1) \o <<mode>>,
           str(((num - 2) % 12) + 1) \o <<mode>>,
           str(num) \o <<IF mode = "B" THEN "A" ELSE "B">> >>

-----------------------------------------------------------------------------
(* Transition scorer *)

Abs(x) == IF x < 0 THEN -x ELSE x

InSeq(x, s) == \E i \in 1..Len(s) : s[i] = x

\* abs(song1['bpm'] - song2['bpm']) raises TypeError when a bpm is None
transition_score_raises(song1, song2) == song1.bpm = None \/ song2.bpm = None

\* mutant of transition_score: the tempo difference is not halved
transition_score_full_weight(song1, song2) ==
    LET bpm_diff == Abs(song1.bpm[1] - song2.bpm[1])
        key1 == get(song1.key)
        key2 == get(song2.key)
        key_penalty ==
            IF key1 = None \/ key2 = None THEN 100
            ELSE IF InSeq(key2, camelot_neighbors(key1)) THEN 0
            ELSE 50
    IN  2 * key_penalty + 2 * bpm_diff

\* the score in half points, for two songs whose bpm is a number
transition_score(song1, song2) ==
    LET bpm_diff == Abs(song1.bpm[1] - song2.bpm[1])
        key1 == get(song1.key)
        key2 == get(song2.key)
        key_penalty ==
            IF key1 = None \/ key2 = None THEN 100
            ELSE IF InSeq(key2, camelot_neighbors(key1)) THEN 0
            ELSE 50
    IN  2 * key_penalty + bpm_diff

-----------------------------------------------------------------------------
(* Greedy sequencer *)

Ok(list) == [raised |-> FALSE, list |-> list]

Raise == [raised |-> TRUE, list |-> <<>>]

\* a < b on two sort keys raises TypeError when either is None
lt_raises(a, b) == a = None \/ b = None

\* mutant of lt: <= for <, which moves a song past its equals
lt_or_equal(a, b) == a[1] <= b[1]

lt(a, b) == a[1] < b[1]

\* one insertion of the stable sort: x moves left past the elements it is
\* strictly less than, comparing x < pre[j] from the right
RECURSIVE insert(_, _, _)
insert(pre, x, j) ==
    IF j = 0 THEN Ok(<<x>> \o pre)
    ELSE IF lt_raises(x.bpm, pre[j].bpm) THEN Raise
    ELSE IF lt(x.bpm, pre[j].bpm) THEN insert(pre, x, j - 1)
    ELSE Ok(SubSeq(pre, 1, j) \o <<x>> \o SubSeq(pre, j + 1, Len(pre)))

RECURSIVE sorted_from(_, _, _)
sorted_from(s, i, acc) ==
    IF i > Len(s) THEN Ok(acc)
    ELSE LET r == insert(acc, s[i], Len(acc))
         IN  IF r.raised THEN Raise ELSE sorted_from(s, i + 1, r.list)

\* sorted(songs, key=lambda s: s['bpm'])
sorted(s) == sorted_from(s, 1, <<>>)

\* min(songs, key=...): the scan keeps the first element and replaces it only
\* by a strictly smaller one; the result is the index of the element returned
RECURSIVE min_scan(_, _, _, _)
min_scan(list, last, i, best) ==
    IF i > Len(list) THEN best
    ELSE min_scan(list, last, i + 1,
                  IF transition_score(last, list[i]) < transition_score(last, list[best])
                  THEN i ELSE best)

\* mutant of min: the last of the smallest scores instead of the first
RECURSIVE min_scan_last(_, _, _, _)
min_scan_last(list, last, i, best) ==
    IF i > Len(list) THEN best
    ELSE min_scan_last(list, last, i + 1,
                  IF transition_score(last, list[i]) <= transition_score(last, list[best])
                  THEN i ELSE best)

min_last(list, last) == list[min_scan_last(list, last, 2, 1)]

min(list, last) == list[min_scan(list, last, 2, 1)]

\* mutant of remove: every element equal to x is dropped
RECURSIVE remove_all(_, _)
remove_all(list, x) ==
    IF list = <<>> THEN <<>>
    ELSE IF Head(list) = x THEN remove_all(Tail(list), x)
    ELSE <<Head(list)>> \o remove_all(Tail(list), x)

\* list.remove(x): drops the first element equal to x
remove(list, x) ==
    LET i == CHOOSE k \in 1..Len(list) :
                 list[k] = x /\ \A j \in 1..(k - 1) : list[j] # x
    IN  SubSeq(list, 1, i - 1) \o SubSeq(list, i + 1, Len(list))

\* mutant of append: the song is put in front
prepend(list, x) == <<x>> \o list

\* ordered.append(next_song)
append(list, x) == Append(list, x)

\* mutant of Seed: the seed is read but not popped from the sorted list
SeedNoPop ==
    /\ pc = "start"
    /\ IF songs = <<>>
       THEN /\ pc' = "return"
            /\ UNCHANGED <<songs, ordered>>
       ELSE LET r == sorted(songs)
            IN  IF r.raised
                THEN /\ pc' = "except"
                     /\ UNCHANGED <<songs, ordered>>
                ELSE /\ ordered' = <<Head(r.list)>>
                     /\ songs' = r.list
                     /\ pc' = "loop"
    /\ UNCHANGED <<request, response, evals, call>>

\* lines 52-56: the empty case, the sort and the seed
Seed ==
    /\ pc = "start"
    /\ IF songs = <<>>
       THEN /\ pc' = "return"
            /\ UNCHANGED <<songs, ordered>>
       ELSE LET r == sorted(songs)
            IN  IF r.raised
                THEN /\ pc' = "except"
                     /\ UNCHANGED <<songs, ordered>>
                ELSE /\ ordered' = <<Head(r.list)>>
                     /\ songs' = Tail(r.list)
                     /\ pc' = "loop"
    /\ UNCHANGED <<request, response, evals, call>>

\* lines 58-63: one iteration of the while loop
Step ==
    /\ pc = "loop"
    /\ songs # <<>>
    /\ LET last == ordered[Len(ordered)]
       IN  IF \E i \in 1..Len(songs) : transition_score_raises(last, songs[i])
           THEN /\ pc' = "except"
                /\ UNCHANGED <<songs, ordered, evals>>
           ELSE LET next_song == min(songs, last)
                IN  /\ ordered' = append(ordered, next_song)
                    /\ songs' = remove(songs, next_song)
                    /\ evals' = evals + Len(songs)
                    /\ pc' = "loop"
    /\ UNCHANGED <<request, response, call>>

\* line 58 false, line 65: the loop ends and the function returns
LoopExit ==
    /\ pc = "loop"
    /\ songs = <<>>
    /\ pc' = "return"
    /\ UNCHANGED <<request, songs, ordered, response, evals, call>>

\* line 73: jsonify(ordered)
Return ==
    /\ pc = "return"
    /\ response' = [status |-> 200, body |-> ordered]
    /\ pc' = "done"
    /\ UNCHANGED <<request, songs, ordered, evals, call>>

\* mutant of Fail: the exception is swallowed and what was placed is answered
FailPartial ==
    /\ pc = "except"
    /\ response' = [status |-> 200, body |-> ordered]
    /\ pc' = "done"
    /\ UNCHANGED <<request, songs, ordered, evals, call>>

\* lines 74-75: jsonify({"error": str(e)}), 500
Fail ==
    /\ pc = "except"
    /\ response' = [status |-> 500, error |-> "TypeError"]
    /\ pc' = "done"
    /\ UNCHANGED <<request, songs, ordered, evals, call>>

NoCall == [fn |-> "none", args |-> <<>>, ret |-> <<>>]

NoResponse == [status |-> 0]

\* line 71: the JSON array of the request body is read, one song at a time
Receive(Songs) ==
    /\ pc = "receive"
    /\ Len(request) < MaxLen
    /\ \E s \in Songs : request' = Append(request, s)
    /\ UNCHANGED <<songs, ordered, pc, response, evals, call>>

\* line 72: order_songs_greedy(songs.copy())
Call ==
    /\ pc = "receive"
    /\ songs' = request
    /\ pc' = "start"
    /\ UNCHANGED <<request, ordered, response, evals, call>>

Init ==
    /\ request = <<>>
    /\ songs = <<>>
    /\ ordered = <<>>
    /\ pc = "receive"
    /\ response = NoResponse
    /\ evals = 0
    /\ call = NoCall

-----------------------------------------------------------------------------
(* Direct calls of the two pure functions, one call per behaviour *)

\* every label of the table, a label outside it, and JSON null
UnitKeys == DOMAIN CAMELOT_MAP \cup {"H", "null"}

UnitSongs == [title : Titles, bpm : Bpms \cup {<<121>>}, key : UnitKeys]

Modes == {"A", "B"}

Codes == {str(p) \o <<m>> : p \in 1..12, m \in Modes}

\* transition_score(song1, song2)
CallScore ==
    /\ call = NoCall
    /\ \E song1 \in UnitSongs, song2 \in UnitSongs :
          call' = [fn |-> "transition_score", args |-> <<song1, song2>>,
                   ret |-> IF transition_score_raises(song1, song2)
                           THEN [raised |-> TRUE]
                           ELSE [raised |-> FALSE,
                                 value |-> transition_score(song1, song2)]]
    /\ UNCHANGED <<request, songs, ordered, pc, response, evals>>

\* camelot_neighbors(camelot_key)
CallNeighbors ==
    /\ call = NoCall
    /\ \E c \in Codes :
          call' = [fn |-> "camelot_neighbors", args |-> <<c>>,
                   ret |-> camelot_neighbors(c)]
    /\ UNCHANGED <<request, songs, ordered, pc, response, evals>>

NextUnit == CallScore \/ CallNeighbors

SpecUnit == Init /\ [][NextUnit]_vars

Next == Receive(OrderSongs) \/ Call \/ Seed \/ Step \/ LoopExit \/ Return \/ Fail

Spec == Init /\ [][Next]_vars

\* the handler runs synchronously to completion once it is called (the
\* arrival of a request is not forced)
Handle == Seed \/ Step \/ LoopExit \/ Return \/ Fail

\* the same handler on songs of one title, for the check of termination
NextFair == Receive(FairSongs) \/ Call \/ Handle

FairSpec == Init /\ [][NextFair]_vars /\ WF_vars(Handle)

-----------------------------------------------------------------------------
(* Properties of the pure functions, checked under SpecUnit *)

TwelveLabels == {"C", "C#", "D", "D#", "E", "F", "F#", "G", "G#", "A", "A#", "B"}

ScoreCalled == call.fn = "transition_score" /\ ~call.ret.raised

\* the key penalty as the three tiers state it
TierPenalty(current, next) ==
    IF current.key \notin TwelveLabels \/ next.key \notin TwelveLabels THEN 100
    ELSE IF InSeq(CAMELOT_MAP[next.key], camelot_neighbors(CAMELOT_MAP[current.key]))
         THEN 0
    ELSE 50

\* C3: for two songs with both tempos present the score is
\* keyPenalty + 0.5 * |tempo difference| (here in half points), keyPenalty
\* being 100 when either key is null or outside the twelve labels, 0 when
\* next's code is among the neighbours of current's code, and 50 otherwise.
C3_PenaltyTiers ==
    call.fn = "transition_score" =>
        LET current == call.args[1]
            next    == call.args[2]
        IN  (current.bpm # None /\ next.bpm # None) =>
                /\ ~call.ret.raised
                /\ call.ret.value =
                       2 * TierPenalty(current, next)
                       + Abs(current.bpm[1] - next.bpm[1])

C3_Witness ==
    /\ ScoreCalled
    /\ call.args[1].key = "C" /\ call.args[2].key = "F#"
    /\ call.args[1].bpm = <<60>> /\ call.args[2].bpm = <<121>>
    /\ call.ret.value = 161

\* the position and mode a Camelot code string denotes
Position(code) == int(SubSeq(code, 1, Len(code) - 1))

Mode(code) == code[Len(code)]

Clockwise(p) == IF p = 12 THEN 1 ELSE p + 1

Counterclockwise(p) == IF p = 1 THEN 12 ELSE p - 1

\* C5: the neighbours of the code (p, m) are exactly four distinct codes with
\* positions in 1..12: (p, m), the clockwise and the counterclockwise position
\* with mode m (12 wraps to 1 and 1 wraps to 12), and p with the mode flipped.
C5_Neighbors ==
    call.fn = "camelot_neighbors" =>
        LET p  == Position(call.args[1])
            m  == Mode(call.args[1])
            ns == call.ret
        IN  /\ Len(ns) = 4
            /\ Cardinality({ns[i] : i \in 1..Len(ns)}) = 4
            /\ \A i \in 1..Len(ns) : Position(ns[i]) \in 1..12 /\ ns[i] \in Codes
            /\ {<<Position(ns[i]), Mode(ns[i])>> : i \in 1..Len(ns)} =
                   { <<p, m>>, <<Clockwise(p), m>>, <<Counterclockwise(p), m>>,
                     <<p, IF m = "A" THEN "B" ELSE "A">> }

C5_Witness ==
    /\ call.fn = "camelot_neighbors"
    /\ call.args[1] = <<"1", "A">>
    /\ InSeq(<<"1", "2", "A">>, call.ret)
    /\ InSeq(<<"1", "B">>, call.ret)

\* C8 as stated: two songs with the same tempo and the same key value score 0
\* in both directions.
C8_SameKeyScoresZero ==
    ScoreCalled =>
        LET a == call.args[1]
            b == call.args[2]
        IN  (a.bpm = b.bpm /\ a.key = b.key) =>
                call.ret.value = 0 /\ transition_score(b, a) = 0

\* C8 amended: two songs with the same tempo and the same key, that key being
\* one of the twelve labels of the table, score 0 in both directions.
C8_SameKnownKeyScoresZero ==
    ScoreCalled =>
        LET a == call.args[1]
            b == call.args[2]
        IN  (a.bpm = b.bpm /\ a.key = b.key /\ a.key \in TwelveLabels) =>
                call.ret.value = 0 /\ transition_score(b, a) = 0

C8_Witness ==
    /\ ScoreCalled
    /\ call.args[1].bpm = call.args[2].bpm
    /\ call.args[1].key = "E" /\ call.args[2].key = "E"
    /\ call.args[1].title # call.args[2].title
    /\ call.ret.value = 0

\* C10: the score is symmetric: for every two songs with both tempos present
\* and any keys, transition_score(a, b) = transition_score(b, a).
C10_Symmetric ==
    ScoreCalled =>
        call.ret.value = transition_score(call.args[2], call.args[1])

C10_Witness ==
    /\ ScoreCalled
    /\ call.args[1].key = "B" /\ call.args[2].key = "E"
    /\ call.args[1].bpm = <<60>> /\ call.args[2].bpm = <<180>>
    /\ call.ret.value = 120

-----------------------------------------------------------------------------
(* Properties of the sequencer and of /order, checked under Spec *)

AllTemposPresent(list) == \A i \in 1..Len(list) : list[i].bpm # None

Running == pc \in {"start", "loop", "return"}

Answered == pc = "done" /\ response.status = 200

\* the multiset of the elements of a list
SeqBag(list) ==
    [x \in {list[i] : i \in 1..Len(list)} |->
        Cardinality({i \in 1..Len(list) : list[i] = x})]

RemoveAt(list, i) == SubSeq(list, 1, i - 1) \o SubSeq(list, i + 1, Len(list))

\* the index of the first song of minimal tempo
FirstSlowest(list) ==
    CHOOSE i \in 1..Len(list) :
        /\ \A j \in 1..Len(list) : list[j].bpm[1] >= list[i].bpm[1]
        /\ \A j \in 1..(i - 1) : list[j].bpm[1] > list[i].bpm[1]

\* the stable tempo-ascending order of a list: the slowest songs in their
\* original order, then the rest likewise
RECURSIVE StableByTempo(_)
StableByTempo(list) ==
    IF list = <<>> THEN <<>>
    ELSE LET m == list[FirstSlowest(list)].bpm
             Slowest(s) == s.bpm = m
             Faster(s)  == s.bpm # m
         IN  SelectSeq(list, Slowest) \o StableByTempo(SelectSeq(list, Faster))

\* C1: with all tempos present, the placed sequence together with the unplaced
\* list is at every step exactly the multiset of the input, and the answer is
\* a permutation of the input: same length, same multiset of unchanged songs.
C1_Permutation ==
    AllTemposPresent(request) =>
        /\ Running => SeqBag(ordered) (+) SeqBag(songs) = SeqBag(request)
        /\ pc = "done" =>
              /\ response.status = 200
              /\ Len(response.body) = Len(request)
              /\ SeqBag(response.body) = SeqBag(request)

C1_Witness ==
    /\ Answered
    /\ Len(request) = 3
    /\ request[1] = request[3] /\ request[1] # request[2]
    /\ response.body # request
    /\ response.body[1] = response.body[2]

\* C2: every iteration appends an unplaced song whose score from the tail is
\* the smallest among the unplaced songs, and among the songs of that smallest
\* score the earliest of the unplaced list; the unplaced list is the stable
\* tempo-ascending order of the input without the songs already placed.
C2_GreedyChoice ==
    [][ /\ (pc = "start" /\ pc' = "loop" /\ AllTemposPresent(request)) =>
              /\ ordered' = <<Head(StableByTempo(request))>>
              /\ songs' = Tail(StableByTempo(request))
        /\ (pc = "loop" /\ ordered' # ordered) =>
              LET tail   == ordered[Len(ordered)]
                  chosen == ordered'[Len(ordered')]
              IN  \E i \in 1..Len(songs) :
                      /\ songs[i] = chosen
                      /\ songs' = RemoveAt(songs, i)
                      /\ \A j \in 1..Len(songs) :
                            transition_score(tail, songs[j])
                                >= transition_score(tail, chosen)
                      /\ \A j \in 1..(i - 1) :
                            transition_score(tail, songs[j])
                                > transition_score(tail, chosen)
      ]_vars

C2_Witness ==
    /\ pc = "loop"
    /\ Len(ordered) = 2 /\ Len(songs) = 1
    /\ songs[1] # ordered[2]
    /\ transition_score(ordered[1], ordered[2]) = transition_score(ordered[1], songs[1])
    /\ ordered[2].key # songs[1].key

\* C4: for a non-empty input with all tempos present the first song of the
\* answer has the minimal tempo of the input, and among the songs of that
\* tempo it is the first of the input.
C4_Seed ==
    (request # <<>> /\ AllTemposPresent(request)) =>
        /\ pc \in {"loop", "return"} => ordered[1] = request[FirstSlowest(request)]
        /\ pc = "done" =>
              /\ response.status = 200
              /\ response.body[1] = request[FirstSlowest(request)]
              /\ \A i \in 1..Len(request) :
                    response.body[1].bpm[1] <= request[i].bpm[1]

C4_Witness ==
    /\ Answered
    /\ Len(request) = 3
    /\ request[1].bpm = <<180>>
    /\ request[2].bpm = <<60>> /\ request[3].bpm = <<60>>
    /\ request[2] # request[3]
    /\ response.body[1] = request[2]

C6_Counts ==
    (pc # "receive" /\ AllTemposPresent(request)) =>
        LET n == Len(request)
            k == Len(ordered)
        IN  /\ pc # "except"
            /\ pc = "loop" =>
                  /\ k >= 1
                  /\ Len(songs) = n - k
                  /\ 2 * evals = (k - 1) * (2 * n - k)
            /\ pc \in {"return", "done"} =>
                  /\ k = n
                  /\ 2 * evals = n * (n - 1)
                  /\ evals <= n * n
            /\ pc = "done" => response.status = 200 /\ Len(response.body) = n

\* C6: for n songs with all tempos present the call, once made, ends with an
\* answer after exactly n placements (none for n = 0) and n(n - 1)/2
\* transition_score evaluations in total, at most n squared.
C6_Termination ==
    /\ []C6_Counts
    /\ (pc = "start" /\ AllTemposPresent(request)) ~> Answered

C6_Witness ==
    /\ Answered
    /\ Len(request) = 3
    /\ Len(response.body) = 3
    /\ evals = 3

\* C7: a placement is never revisited: every step leaves the placed sequence
\* alone or appends exactly one song taken out of the unplaced list, nothing
\* returns to the unplaced list, and the answer is the placed sequence.
C7_NoBacktracking ==
    [][ pc # "receive" =>
          /\ \/ ordered' = ordered /\ songs' = songs
             \/ \E i \in 1..Len(songs) :
                   /\ ordered' = Append(ordered, songs[i])
                   /\ SeqBag(songs') (+) SeqBag(<<songs[i]>>) = SeqBag(songs)
          /\ (pc' = "done" /\ response'.status = 200) => response'.body = ordered
      ]_vars

C7_Witness ==
    /\ Answered
    /\ Len(ordered) = 3
    /\ songs = <<>>
    /\ ordered # request
    /\ response.body = ordered

\* C9: an input of two or more songs of which at least one has a null tempo
\* is answered with an error object and status 500, never with an ordering.
C9_NullTempoFails ==
    (pc # "receive" /\ Len(request) >= 2 /\ ~AllTemposPresent(request)) =>
        /\ pc \in {"start", "except", "done"}
        /\ ordered = <<>>
        /\ pc = "done" => response = [status |-> 500, error |-> "TypeError"]

C9_Witness ==
    /\ pc = "done"
    /\ Len(request) = 3
    /\ request[1].bpm # None /\ request[2].bpm # None /\ request[3].bpm = None
    /\ response.status = 500

=============================================================================
